---------------------------- MODULE Spec2Model ----------------------------
(***************************************************************************)
(* A model of script.py, the CNC program utility.                          *)
(*                                                                         *)
(*   funkce1  rewrites a CNC program: coordinates inside tool-definition   *)
(*            blocks are buffered per tool definition and written sorted   *)
(*            by tool definition when the block region ends; Y gets +10    *)
(*            when X > 50.                                                 *)
(*   funkce2  prints the minimum and maximum of X and Y over the first     *)
(*            block region.                                                *)
(*                                                                         *)
(* Text is modelled as a sequence of one-character strings, so that the    *)
(* regular expression, float() and "{:.3f}".format() are computed on the   *)
(* characters.  A float is modelled as a record                            *)
(*      [inf |-> -1 | 0 | 1, neg |-> BOOLEAN, mag |-> Nat]                 *)
(* where inf # 0 is -inf / +inf and a finite value is (-1)^neg * mag/1000  *)
(* (the sign of a zero is kept, as IEEE 754 does).  Every number the       *)
(* program reads has exactly three decimals, and for the magnitudes of the *)
(* model (far below 2^53 / 1000) float(), "+ 10" and "{:.3f}" are exact on *)
(* thousandths, so the value in thousandths is an integer.                 *)
(*                                                                         *)
(* Lines are modelled without their line terminator: readlines() keeps     *)
(* the "\n" on each line and outfile.write(line) writes it back.           *)
(***************************************************************************)
EXTENDS Integers, Sequences, FiniteSets, TLC

\* The longest input file of the model, in lines.
MaxLines == 4

(***************************************************************************)
(* Characters                                                              *)
(***************************************************************************)
Digits == {"0", "1", "2", "3", "4", "5", "6", "7", "8", "9"}

\* The characters of the model in code point order (Python compares str by
\* code point): '-' 45, '.' 46, '0'..'9' 48..57, 'G' 71, 'M' 77, 'N' 78,
\* 'T' 84, 'X' 88, 'Y' 89.
CharOrder ==
    <<"-", ".", "0", "1", "2", "3", "4", "5", "6", "7", "8", "9",
      "G", "M", "N", "T", "X", "Y">>

Ord(c) == CHOOSE k \in 1..Len(CharOrder) : CharOrder[k] = c

DigitVal(c) == Ord(c) - 3

DigitChar(d) == CharOrder[d + 3]

\* Python's None.  The program only tests the tool definition for truth
\* (`if tool_def:`, `elif tool_definition:`) and group 3 of a match is never
\* the empty string, so None and "" are one value here.
None == <<>>

\* s1 < s2 for Python str: lexicographic by code point, a proper prefix first.
RECURSIVE StrLess(_, _)
StrLess(s1, s2) ==
    IF s2 = <<>> THEN FALSE
    ELSE IF s1 = <<>> THEN TRUE
    ELSE IF Head(s1) # Head(s2) THEN Ord(Head(s1)) < Ord(Head(s2))
    ELSE StrLess(Tail(s1), Tail(s2))

(***************************************************************************)
(* The regular expression                                                  *)
(*   X(-*[0-9]+\.[0-9]{3})Y(-*[0-9]+\.[0-9]{3})(T[0-9]{2,})?               *)
(* searched with re.search: the leftmost match, each repetition greedy.    *)
(* The character classes that follow one another are disjoint, so the      *)
(* greedy choice is the only one that can match and no backtracking is     *)
(* needed.                                                                 *)
(***************************************************************************)

\* The position after the longest run of characters of S starting at p.
RECURSIVE RunEnd(_, _, _)
RunEnd(line, p, S) ==
    IF p <= Len(line) /\ line[p] \in S THEN RunEnd(line, p + 1, S) ELSE p

\* -*[0-9]+\.[0-9]{3} at p: the position after it, or 0 when it does not match.
NumberEnd(line, p) ==
    LET a == RunEnd(line, p, {"-"})
        b == RunEnd(line, a, Digits)
    IN  IF /\ b > a
           /\ b + 3 <= Len(line)
           /\ line[b] = "."
           /\ \A k \in 1..3 : line[b + k] \in Digits
        THEN b + 4
        ELSE 0

\* The whole pattern at position s: [ok, g1, g2, g3], g3 = None when the
\* optional group took no part in the match.
MatchAt(line, s) ==
    LET e1 == IF s <= Len(line) /\ line[s] = "X" THEN NumberEnd(line, s + 1) ELSE 0
        e2 == IF e1 # 0 /\ e1 <= Len(line) /\ line[e1] = "Y"
              THEN NumberEnd(line, e1 + 1) ELSE 0
        t  == IF e2 # 0 /\ e2 <= Len(line) /\ line[e2] = "T"
              THEN RunEnd(line, e2 + 1, Digits) ELSE 0
    IN  IF e2 = 0
        THEN [ok |-> FALSE, g1 |-> None, g2 |-> None, g3 |-> None]
        ELSE [ok |-> TRUE,
              g1 |-> SubSeq(line, s + 1, e1 - 1),
              g2 |-> SubSeq(line, e1 + 1, e2 - 1),
              g3 |-> IF t >= e2 + 3 THEN SubSeq(line, e2, t - 1) ELSE None]

\* re.search(pattern, line): the match at the leftmost position that has one.
re_search(line) ==
    LET starts == {s \in 1..Len(line) : MatchAt(line, s).ok}
    IN  IF starts = {}
        THEN [ok |-> FALSE, g1 |-> None, g2 |-> None, g3 |-> None]
        ELSE MatchAt(line, CHOOSE s \in starts : \A u \in starts : s <= u)

(***************************************************************************)
(* float() and "{:.3f}".format()                                           *)
(***************************************************************************)
Inf    == [inf |-> 1,  neg |-> FALSE, mag |-> 0]
NegInf == [inf |-> -1, neg |-> TRUE,  mag |-> 0]

Finite(neg, mag) == [inf |-> 0, neg |-> neg, mag |-> mag]

\* The value of a finite float in thousandths.
Val(f) == IF f.neg THEN 0 - f.mag ELSE f.mag

\* a < b on floats.
FloatLess(a, b) ==
    IF a.inf # b.inf THEN a.inf < b.inf
    ELSE a.inf = 0 /\ Val(a) < Val(b)

\* The number a string of digits denotes.
RECURSIVE DigitsValue(_)
DigitsValue(ds) ==
    IF ds = <<>> THEN 0
    ELSE 10 * DigitsValue(SubSeq(ds, 1, Len(ds) - 1)) + DigitVal(ds[Len(ds)])

\* float(s) for a string the pattern's groups 1 and 2 can hold: float accepts
\* at most one sign, so two or more '-' raise ValueError.
FloatRaises(s) == RunEnd(s, 1, {"-"}) > 2

float(s) ==
    LET a == RunEnd(s, 1, {"-"})
        b == RunEnd(s, a, Digits)
    IN  Finite(a = 2,
               1000 * DigitsValue(SubSeq(s, a, b - 1))
                 + DigitsValue(SubSeq(s, b + 1, b + 3)))

\* The decimal digits of a natural number.
RECURSIVE NatDigits(_)
NatDigits(n) ==
    IF n < 10 THEN <<DigitChar(n)>>
    ELSE Append(NatDigits(n \div 10), DigitChar(n % 10))

\* "{:.3f}".format(f)
Format3(f) ==
    IF f.inf = 1 THEN <<"i", "n", "f">>
    ELSE IF f.inf = -1 THEN <<"-", "i", "n", "f">>
    ELSE (IF f.neg THEN <<"-">> ELSE <<>>)
         \o NatDigits(f.mag \div 1000)
         \o <<".", DigitChar((f.mag \div 100) % 10),
                   DigitChar((f.mag \div 10) % 10),
                   DigitChar(f.mag % 10)>>


(***************************************************************************)
(* The input files of the model: every sequence of at most MaxLines lines  *)
(* over these.                                                             *)
(***************************************************************************)
\* G00: no match
LineG00 ==
    <<"G", "0", "0">>
\* X1.00Y2.000T01: no match (two decimals in the X field)
LineShort ==
    <<"X", "1", ".", "0", "0", "Y", "2", ".", "0", "0", "0", "T", "0", "1">>
\* N1X50.000Y-0.000: groups 50.000, -0.000, None
LineN1 ==
    <<"N", "1", "X", "5", "0", ".", "0", "0", "0", "Y", "-", "0", ".", "0", "0", "0">>
\* X60.000Y5.000T20: groups 60.000, 5.000, T20
LineT20 ==
    <<"X", "6", "0", ".", "0", "0", "0", "Y", "5", ".", "0", "0", "0", "T", "2", "0">>
\* X050.001Y0.000T100: groups 050.001, 0.000, T100
LineT100 ==
    <<"X", "0", "5", "0", ".", "0", "0", "1", "Y", "0", ".", "0", "0", "0", "T", "1", "0", "0">>
\* X--1.000Y2.000: groups --1.000, 2.000, None
LineMinus ==
    <<"X", "-", "-", "1", ".", "0", "0", "0", "Y", "2", ".", "0", "0", "0">>
\* X70.500Y-12.000T1: groups 70.500, -12.000, None (T needs two digits)
LineT1 ==
    <<"X", "7", "0", ".", "5", "0", "0", "Y", "-", "1", "2", ".", "0", "0", "0", "T", "1">>

Vocabulary ==
    {LineG00, LineShort, LineN1, LineT20, LineT100, LineMinus, LineT1}

Files == UNION {[1..n -> Vocabulary] : n \in 0..MaxLines}

(***************************************************************************)
(* State                                                                   *)
(***************************************************************************)
VARIABLES
    file,             \* "ok", or how open()/readlines() fails: "noopen" and
                      \* "noread" (OSError), "undecodable" (UnicodeDecodeError)
    lines,            \* infile.readlines()
    pc,               \* "cli", "start", "loop", "print", "done", "raised", "exit"
    i,                \* the index in lines of the line the loop reads next
    blocks,           \* funkce1: tool definition -> sequence of coordinates
    tool_definition,  \* funkce1: the current tool definition, or None
    out,              \* funkce1: the lines written to cnc.txt
    created,          \* funkce1: cnc.txt was opened for writing (truncated)
    stdout,           \* the lines printed
    extremas,         \* funkce2: [min_x, max_x, min_y, max_y]
    in_block,         \* funkce2: the block region was entered
    args,             \* parser.parse_args(): [funkce1, funkce2]
    ran,              \* the pipelines called so far, in order
    fed               \* funkce2: the indices of the lines whose coordinates
                      \* were passed to update_min_max (a history variable)

vars ==
    <<file, lines, pc, i, blocks, tool_definition, out, created, stdout,
      extremas, in_block, args, ran, fed>>

\* A written line.  text is what the file holds; the other fields record where
\* it came from: the input line (src), and for a line written by
\* write_sorted_blocks the input line that ended the block region (flush) and
\* the tool definition of its group (key); flush = 0 for a line written
\* directly.
OutLine(text, src, flush, key) ==
    [text |-> text, src |-> src, flush |-> flush, key |-> key]

EmptyBlocks == [k \in {} |-> <<>>]

\* A variant of InitExtremas: the extremas start at 0.
InitExtremasZero ==
    [min_x |-> Finite(FALSE, 0), max_x |-> Finite(FALSE, 0),
     min_y |-> Finite(FALSE, 0), max_y |-> Finite(FALSE, 0)]

\* extremas = { min_x: inf, max_x: -inf, min_y: inf, max_y: -inf }
InitExtremas ==
    [min_x |-> Inf, max_x |-> NegInf, min_y |-> Inf, max_y |-> NegInf]

(***************************************************************************)
(* funkce1: the rewrite pipeline                                           *)
(***************************************************************************)
get_formatted_coords(x, y) == <<"X">> \o Format3(x) \o <<"Y">> \o Format3(y)

\* get_coords(match), when neither float() raises.
get_coords(match) == [x |-> float(match.g1), y |-> float(match.g2)]

get_coords_raises(match) == FloatRaises(match.g1) \/ FloatRaises(match.g2)

\* A variant of sorted: by the number of the tool definition (T20 before T100).
RECURSIVE sorted_by_number(_)
sorted_by_number(S) ==
    IF S = {} THEN <<>>
    ELSE LET m == CHOOSE m \in S :
                     \A k \in S : DigitsValue(Tail(m)) <= DigitsValue(Tail(k))
         IN  <<m>> \o sorted_by_number(S \ {m})

\* sorted(keys)
RECURSIVE sorted(_)
sorted(S) ==
    IF S = {} THEN <<>>
    ELSE LET m == CHOOSE m \in S : \A k \in S : k = m \/ StrLess(m, k)
         IN  <<m>> \o sorted(S \ {m})

\* A variant of GroupLines: include_definition is never reset, so every line of
\* the group gets the tool definition.
GroupLinesAllLabelled(bl, tool_def, n) ==
    [j \in 1..Len(bl[tool_def]) |->
        OutLine(get_formatted_coords(bl[tool_def][j].x, bl[tool_def][j].y)
                  \o tool_def,
                bl[tool_def][j].src, n, tool_def)]

\* The inner loop of write_sorted_blocks: the lines of one tool definition,
\* the first with the tool definition appended.
GroupLines(bl, tool_def, n) ==
    [j \in 1..Len(bl[tool_def]) |->
        OutLine(get_formatted_coords(bl[tool_def][j].x, bl[tool_def][j].y)
                  \o (IF j = 1 THEN tool_def ELSE <<>>),
                bl[tool_def][j].src, n, tool_def)]

RECURSIVE WriteGroups(_, _, _)
WriteGroups(bl, keys, n) ==
    IF keys = <<>> THEN <<>>
    ELSE GroupLines(bl, Head(keys), n) \o WriteGroups(bl, Tail(keys), n)

\* write_sorted_blocks(blocks, out): what it writes; n is the line being read.
write_sorted_blocks(bl, n) == WriteGroups(bl, sorted(DOMAIN bl), n)

\* y_coord after `if x_coord > 50: y_coord += 10`.
Threshold == 50000
Offset == 10000

AddOffset(y) ==
    LET v == Val(y) + Offset IN Finite(v < 0, IF v < 0 THEN 0 - v ELSE v)

\* A variant of OffsetY: the offset from X = 50 on (x_coord >= 50).
OffsetYFromThreshold(x, y) ==
    IF ~FloatLess(x, Finite(FALSE, Threshold)) THEN AddOffset(y) ELSE y

OffsetY(x, y) == IF FloatLess(Finite(FALSE, Threshold), x) THEN AddOffset(y) ELSE y

\* blocks[tool_def].append(c) on a DefaultDict(list)
BlocksAppend(bl, tool_def, c) ==
    IF tool_def \in DOMAIN bl
    THEN [bl EXCEPT ![tool_def] = Append(@, c)]
    ELSE [k \in DOMAIN bl \cup {tool_def} |->
             IF k = tool_def THEN <<c>> ELSE bl[k]]

\* A variant of parse_line: the coordinate is written also when it is buffered.
parse_line_writes(match, bl, tool_def, n) ==
    LET td == IF match.g3 # None THEN match.g3 ELSE tool_def
        xy == get_coords(match)
        y  == OffsetY(xy.x, xy.y)
    IN  [blocks   |-> IF td # None
                      THEN BlocksAppend(bl, td, [x |-> xy.x, y |-> y, src |-> n])
                      ELSE bl,
         written  |-> <<OutLine(get_formatted_coords(xy.x, y), n, 0, None)>>,
         tool_def |-> td]

\* A variant of parse_line: the coordinate is appended under the tool definition
\* passed in, the one of the line taking effect from the next line on.
parse_line_late_key(match, bl, tool_def, n) ==
    LET td  == IF match.g3 # None THEN match.g3 ELSE tool_def
        key == IF tool_def # None THEN tool_def ELSE td
        xy  == get_coords(match)
        y   == OffsetY(xy.x, xy.y)
    IN  IF td # None
        THEN [blocks   |-> BlocksAppend(bl, key, [x |-> xy.x, y |-> y, src |-> n]),
              written  |-> <<>>,
              tool_def |-> td]
        ELSE [blocks   |-> bl,
              written  |-> <<OutLine(get_formatted_coords(xy.x, y), n, 0, None)>>,
              tool_def |-> td]

\* parse_line(match, blocks, out, tool_def), when get_coords does not raise:
\* the new blocks, what is written, and the tool definition returned.  n is the
\* index of the line.
parse_line(match, bl, tool_def, n) ==
    LET td == IF match.g3 # None THEN match.g3 ELSE tool_def
        xy == get_coords(match)
        y  == OffsetY(xy.x, xy.y)
    IN  IF td # None
        THEN [blocks   |-> BlocksAppend(bl, td, [x |-> xy.x, y |-> y, src |-> n]),
              written  |-> <<>>,
              tool_def |-> td]
        ELSE [blocks   |-> bl,
              written  |-> <<OutLine(get_formatted_coords(xy.x, y), n, 0, None)>>,
              tool_def |-> td]

Diagnostic1 == <<"Cannot open/read file", "path">>
Diagnostic2 == <<"Cannot open/read file">>

\* The value of an option: argparse stores None for an option that is not on
\* the command line, and the string that follows it otherwise (it may be "").
NotGiven == [given |-> FALSE, value |-> <<>>]
Given(path) == [given |-> TRUE, value |-> path]

\* The path of the input file of the model.
Path == <<"in.txt">>

\* `if args.funkce1:` -- None and "" are both false.
Truthy(a) == a.given /\ a.value # <<>>

FileStates == {"ok", "noopen", "noread", "undecodable"}

\* funkce1(path) is called.
InitRewrite ==
    /\ args = [funkce1 |-> Given(Path), funkce2 |-> NotGiven]
    /\ ran = <<"funkce1">>
    /\ fed = {}
    /\ file \in FileStates
    /\ lines \in (IF file = "ok" THEN Files ELSE {<<>>})
    /\ pc = "start"
    /\ i = 1
    /\ blocks = EmptyBlocks
    /\ tool_definition = None
    /\ out = <<>>
    /\ created = FALSE
    /\ stdout = <<>>
    /\ extremas = InitExtremas
    /\ in_block = FALSE

\* A variant of Funkce1Open: cnc.txt is opened before the input file.
Funkce1OpenOutputFirst ==
    /\ pc = "start"
    /\ created' = TRUE
    /\ IF file = "ok"
       THEN pc' = "loop" /\ stdout' = stdout
       ELSE IF file = "undecodable"
       THEN pc' = "raised" /\ stdout' = stdout
       ELSE pc' = "done" /\ stdout' = Append(stdout, Diagnostic1)
    /\ UNCHANGED <<args, ran, fed, file, lines, i, blocks, tool_definition, out,
                   extremas, in_block>>

\* The with statement: open(path) first, then open("cnc.txt", 'w'), then
\* readlines(); an OSError ends funkce1 in the except clause, and a
\* UnicodeDecodeError of readlines() (a ValueError) is not caught.
Funkce1Open ==
    /\ pc = "start"
    /\ created' = (file # "noopen")
    /\ IF file = "ok"
       THEN pc' = "loop" /\ stdout' = stdout
       ELSE IF file = "undecodable"
       THEN pc' = "raised" /\ stdout' = stdout
       ELSE pc' = "done" /\ stdout' = Append(stdout, Diagnostic1)
    /\ UNCHANGED <<args, ran, fed, file, lines, i, blocks, tool_definition, out, extremas, in_block>>

\* A matching line: parse_line.
Funkce1Match ==
    /\ pc = "loop"
    /\ i <= Len(lines)
    /\ LET match == re_search(lines[i])
       IN  /\ match.ok
           /\ ~get_coords_raises(match)
           /\ LET r == parse_line(match, blocks, tool_definition, i)
              IN  /\ blocks' = r.blocks
                  /\ out' = out \o r.written
                  /\ tool_definition' = r.tool_def
    /\ i' = i + 1
    /\ UNCHANGED <<args, ran, fed, file, lines, pc, created, stdout, extremas, in_block>>

\* A matching line whose X or Y float() rejects: the ValueError is not caught
\* by `except OSError` and ends the program; the with statement closes the
\* files.
Funkce1Raise ==
    /\ pc = "loop"
    /\ i <= Len(lines)
    /\ LET match == re_search(lines[i])
       IN  match.ok /\ get_coords_raises(match)
    /\ pc' = "raised"
    /\ UNCHANGED <<args, ran, fed, file, lines, i, blocks, tool_definition, out, created, stdout,
                   extremas, in_block>>

\* No match while a tool definition is set: the end of the block region.
Funkce1Flush ==
    /\ pc = "loop"
    /\ i <= Len(lines)
    /\ ~re_search(lines[i]).ok
    /\ tool_definition # None
    /\ out' = out \o write_sorted_blocks(blocks, i)
                  \o <<OutLine(lines[i], i, 0, None)>>
    /\ tool_definition' = None
    /\ i' = i + 1
    /\ UNCHANGED <<args, ran, fed, file, lines, pc, blocks, created, stdout, extremas, in_block>>

\* No match and no tool definition: the line is written as it is.
Funkce1Verbatim ==
    /\ pc = "loop"
    /\ i <= Len(lines)
    /\ ~re_search(lines[i]).ok
    /\ tool_definition = None
    /\ out' = Append(out, OutLine(lines[i], i, 0, None))
    /\ i' = i + 1
    /\ UNCHANGED <<args, ran, fed, file, lines, pc, blocks, tool_definition, created, stdout,
                   extremas, in_block>>

\* A variant of Funkce1End: a block region the input ends in is flushed.
Funkce1EndFlushes ==
    /\ pc = "loop"
    /\ i > Len(lines)
    /\ pc' = "done"
    /\ out' = IF tool_definition # None
              THEN out \o write_sorted_blocks(blocks, i) ELSE out
    /\ UNCHANGED <<args, ran, fed, file, lines, i, blocks, tool_definition, created, stdout,
                   extremas, in_block>>

\* The end of the for loop: the files are closed, nothing more is written.
Funkce1End ==
    /\ pc = "loop"
    /\ i > Len(lines)
    /\ pc' = "done"
    /\ UNCHANGED <<args, ran, fed, file, lines, i, blocks, tool_definition, out, created, stdout,
                   extremas, in_block>>

NextRewrite ==
    \/ Funkce1Open
    \/ Funkce1Match
    \/ Funkce1Raise
    \/ Funkce1Flush
    \/ Funkce1Verbatim
    \/ Funkce1End

SpecRewrite == InitRewrite /\ [][NextRewrite]_vars

(***************************************************************************)
(* funkce2: the report pipeline                                            *)
(***************************************************************************)
\* A variant of update_min_max: max_y follows x.
update_min_max_xy(xy, ex) ==
    [min_x |-> IF FloatLess(xy.x, ex.min_x) THEN xy.x ELSE ex.min_x,
     max_x |-> IF FloatLess(ex.max_x, xy.x) THEN xy.x ELSE ex.max_x,
     min_y |-> IF FloatLess(xy.y, ex.min_y) THEN xy.y ELSE ex.min_y,
     max_y |-> IF FloatLess(ex.max_y, xy.x) THEN xy.x ELSE ex.max_y]

\* A variant of update_min_max: min_x is the X of the last coordinate.
update_min_max_last(xy, ex) ==
    [min_x |-> xy.x,
     max_x |-> IF FloatLess(ex.max_x, xy.x) THEN xy.x ELSE ex.max_x,
     min_y |-> IF FloatLess(xy.y, ex.min_y) THEN xy.y ELSE ex.min_y,
     max_y |-> IF FloatLess(ex.max_y, xy.y) THEN xy.y ELSE ex.max_y]

\* update_min_max(xy, ex)
update_min_max(xy, ex) ==
    [min_x |-> IF FloatLess(xy.x, ex.min_x) THEN xy.x ELSE ex.min_x,
     max_x |-> IF FloatLess(ex.max_x, xy.x) THEN xy.x ELSE ex.max_x,
     min_y |-> IF FloatLess(xy.y, ex.min_y) THEN xy.y ELSE ex.min_y,
     max_y |-> IF FloatLess(ex.max_y, xy.y) THEN xy.y ELSE ex.max_y]

\* '/'.join(strs)
RECURSIVE Join(_)
Join(strs) ==
    IF Len(strs) = 0 THEN <<>>
    ELSE IF Len(strs) = 1 THEN strs[1]
    ELSE strs[1] \o <<"/">> \o Join(Tail(strs))

\* print_min_max(ex): the line it prints; ex.values() are in insertion order,
\* min_x, max_x, min_y, max_y.
print_min_max(ex) ==
    Join(<<Format3(ex.min_x), Format3(ex.max_x),
           Format3(ex.min_y), Format3(ex.max_y)>>)

\* A variant of EnterBlock: any matching line enters the block region.
EnterBlockOnMatch(inb, match) == TRUE

\* in_block after `if not in_block: in_block = match.group(3) is not None`.
EnterBlock(inb, match) == IF ~inb THEN match.g3 # None ELSE inb

\* funkce2(path) is called.
InitReport ==
    /\ args = [funkce1 |-> NotGiven, funkce2 |-> Given(Path)]
    /\ ran = <<"funkce2">>
    /\ fed = {}
    /\ file \in FileStates
    /\ lines \in (IF file = "ok" THEN Files ELSE {<<>>})
    /\ pc = "start"
    /\ i = 1
    /\ blocks = EmptyBlocks
    /\ tool_definition = None
    /\ out = <<>>
    /\ created = FALSE
    /\ stdout = <<>>
    /\ extremas = InitExtremas
    /\ in_block = FALSE

\* A variant of Funkce2Open: funkce2 returns after the diagnostic.
Funkce2OpenReturns ==
    /\ pc = "start"
    /\ IF file = "ok"
       THEN pc' = "loop" /\ stdout' = stdout
       ELSE IF file = "undecodable"
       THEN pc' = "raised" /\ stdout' = stdout
       ELSE pc' = "done" /\ stdout' = Append(stdout, Diagnostic2)
    /\ UNCHANGED <<args, ran, fed, file, lines, i, blocks, tool_definition, out,
                   created, extremas, in_block>>

\* open(path) and readlines(); an OSError is reported and funkce2 goes on to
\* print_min_max; a UnicodeDecodeError of readlines() (a ValueError) is not
\* caught.
Funkce2Open ==
    /\ pc = "start"
    /\ IF file = "ok"
       THEN pc' = "loop" /\ stdout' = stdout
       ELSE IF file = "undecodable"
       THEN pc' = "raised" /\ stdout' = stdout
       ELSE pc' = "print" /\ stdout' = Append(stdout, Diagnostic2)
    /\ UNCHANGED <<args, ran, fed, file, lines, i, blocks, tool_definition, out, created,
                   extremas, in_block>>

\* A matching line: the block region is entered when the line has a tool
\* definition, and inside it the extremas are updated.
Funkce2Match ==
    /\ pc = "loop"
    /\ i <= Len(lines)
    /\ LET match == re_search(lines[i])
           inb   == EnterBlock(in_block, match)
       IN  /\ match.ok
           /\ ~(inb /\ get_coords_raises(match))
           /\ in_block' = inb
           /\ extremas' = IF inb THEN update_min_max(get_coords(match), extremas)
                          ELSE extremas
           /\ fed' = IF inb THEN fed \cup {i} ELSE fed
    /\ i' = i + 1
    /\ UNCHANGED <<args, ran, file, lines, pc, blocks, tool_definition, out, created, stdout>>

\* A matching line inside the block region whose X or Y float() rejects: the
\* ValueError ends the program before anything is printed.
Funkce2Raise ==
    /\ pc = "loop"
    /\ i <= Len(lines)
    /\ LET match == re_search(lines[i])
       IN  /\ match.ok
           /\ EnterBlock(in_block, match)
           /\ get_coords_raises(match)
           /\ in_block' = EnterBlock(in_block, match)
    /\ pc' = "raised"
    /\ UNCHANGED <<args, ran, fed, file, lines, i, blocks, tool_definition, out, created, stdout,
                   extremas>>

\* No match before the block region: the line is skipped.
Funkce2Skip ==
    /\ pc = "loop"
    /\ i <= Len(lines)
    /\ ~re_search(lines[i]).ok
    /\ ~in_block
    /\ i' = i + 1
    /\ UNCHANGED <<args, ran, fed, file, lines, pc, blocks, tool_definition, out, created, stdout,
                   extremas, in_block>>

\* A variant of Funkce2Break: the line is skipped and the loop goes on.
Funkce2BreakGoesOn ==
    /\ pc = "loop"
    /\ i <= Len(lines)
    /\ ~re_search(lines[i]).ok
    /\ in_block
    /\ i' = i + 1
    /\ UNCHANGED <<args, ran, fed, file, lines, pc, blocks, tool_definition, out, created, stdout,
                   extremas, in_block>>

\* No match inside the block region: break.
Funkce2Break ==
    /\ pc = "loop"
    /\ i <= Len(lines)
    /\ ~re_search(lines[i]).ok
    /\ in_block
    /\ pc' = "print"
    /\ i' = i + 1
    /\ UNCHANGED <<args, ran, fed, file, lines, blocks, tool_definition, out, created, stdout,
                   extremas, in_block>>

\* The for loop runs out of lines.
Funkce2End ==
    /\ pc = "loop"
    /\ i > Len(lines)
    /\ pc' = "print"
    /\ UNCHANGED <<args, ran, fed, file, lines, i, blocks, tool_definition, out, created, stdout,
                   extremas, in_block>>

\* print_min_max(extremas)
Funkce2Print ==
    /\ pc = "print"
    /\ stdout' = Append(stdout, print_min_max(extremas))
    /\ pc' = "done"
    /\ UNCHANGED <<args, ran, fed, file, lines, i, blocks, tool_definition, out, created,
                   extremas, in_block>>

NextReport ==
    \/ Funkce2Open
    \/ Funkce2Match
    \/ Funkce2Raise
    \/ Funkce2Skip
    \/ Funkce2Break
    \/ Funkce2End
    \/ Funkce2Print

SpecReport == InitReport /\ [][NextReport]_vars

(***************************************************************************)
(* The command line: the module-level code.                                *)
(***************************************************************************)
\* The longest input file of the command-line model, in lines.
MaxCliLines == 2

CliFiles == UNION {[1..n -> Vocabulary] : n \in 0..MaxCliLines}

\* What parse_args() can store for one option.
ArgValues == {NotGiven, Given(<<>>), Given(Path)}

InitCLI ==
    /\ args \in [funkce1 : ArgValues, funkce2 : ArgValues]
    /\ ran = <<>>
    /\ fed = {}
    /\ file \in FileStates
    /\ lines \in (IF file = "ok" THEN CliFiles ELSE {<<>>})
    /\ pc = "cli"
    /\ i = 1
    /\ blocks = EmptyBlocks
    /\ tool_definition = None
    /\ out = <<>>
    /\ created = FALSE
    /\ stdout = <<>>
    /\ extremas = InitExtremas
    /\ in_block = FALSE

\* if args.funkce1: funkce1(args.funkce1) elif args.funkce2: funkce2(args.funkce2)
Dispatch ==
    /\ pc = "cli"
    /\ IF Truthy(args.funkce1)
       THEN ran' = Append(ran, "funkce1") /\ pc' = "start"
       ELSE IF Truthy(args.funkce2)
       THEN ran' = Append(ran, "funkce2") /\ pc' = "start"
       ELSE ran' = ran /\ pc' = "exit"
    /\ UNCHANGED <<args, fed, file, lines, i, blocks, tool_definition, out, created,
                   stdout, extremas, in_block>>

\* The pipeline that was called last is the one running.
Running(f) == ran # <<>> /\ ran[Len(ran)] = f

NextCLI ==
    \/ Dispatch
    \/ Running("funkce1") /\ Funkce1Open
    \/ Running("funkce1") /\ Funkce1Match
    \/ Running("funkce1") /\ Funkce1Raise
    \/ Running("funkce1") /\ Funkce1Flush
    \/ Running("funkce1") /\ Funkce1Verbatim
    \/ Running("funkce1") /\ Funkce1End
    \/ Running("funkce2") /\ Funkce2Open
    \/ Running("funkce2") /\ Funkce2Match
    \/ Running("funkce2") /\ Funkce2Raise
    \/ Running("funkce2") /\ Funkce2Skip
    \/ Running("funkce2") /\ Funkce2Break
    \/ Running("funkce2") /\ Funkce2End
    \/ Running("funkce2") /\ Funkce2Print

SpecCLI == InitCLI /\ [][NextCLI]_vars

(***************************************************************************)
(* The program run twice on the same file: -funkce1, then -funkce2.        *)
(***************************************************************************)
\* The second run starts when the first has ended; what the first left in
\* blocks, out and stdout is kept for comparison.
RunReportAfterRewrite ==
    /\ ran = <<"funkce1">>
    /\ pc \in {"done", "raised"}
    /\ ran' = Append(ran, "funkce2")
    /\ pc' = "start"
    /\ i' = 1
    /\ UNCHANGED <<args, fed, file, lines, blocks, tool_definition, out, created,
                   stdout, extremas, in_block>>

NextBoth ==
    \/ Running("funkce1") /\ Funkce1Open
    \/ Running("funkce1") /\ Funkce1Match
    \/ Running("funkce1") /\ Funkce1Raise
    \/ Running("funkce1") /\ Funkce1Flush
    \/ Running("funkce1") /\ Funkce1Verbatim
    \/ Running("funkce1") /\ Funkce1End
    \/ RunReportAfterRewrite
    \/ Running("funkce2") /\ Funkce2Open
    \/ Running("funkce2") /\ Funkce2Match
    \/ Running("funkce2") /\ Funkce2Raise
    \/ Running("funkce2") /\ Funkce2Skip
    \/ Running("funkce2") /\ Funkce2Break
    \/ Running("funkce2") /\ Funkce2End
    \/ Running("funkce2") /\ Funkce2Print

SpecBoth == InitRewrite /\ [][NextBoth]_vars

(***************************************************************************)
(* Properties.  What they say about the input is computed from the input   *)
(* lines, not from the state of the pipelines.                             *)
(***************************************************************************)
\* The match of every line of the vocabulary.
Classify == [l \in Vocabulary |-> re_search(l)]

\* Line n has a coordinate pattern.
Matched(n) == Classify[lines[n]].ok

\* Line n has a coordinate pattern with a tool-definition field.
HasToolDef(n) == Classify[lines[n]].ok /\ Classify[lines[n]].g3 # None

\* The X and Y of line n as written in the input, in thousandths.
InX(n) == Val(float(Classify[lines[n]].g1))
InY(n) == Val(float(Classify[lines[n]].g2))

\* Line n is a matching line of a block region: a line with a tool definition
\* precedes it (or is it) with only matching lines in between.
InRegion(n) ==
    \E k \in 1..n : HasToolDef(k) /\ \A j \in k..n : Matched(j)

\* The lines read so far.
Read == 1..(i - 1)

\* A written line that holds a coordinate (a verbatim line has no pattern).
IsCoordLine(p) == re_search(out[p].text).ok

\* C1: in every state of the rewrite pipeline where no tool definition is
\* active the accumulator holds no coordinates (it is cleared after a flush).
C1_AccumulatorCleared ==
    tool_definition = None => DOMAIN blocks = {}

\* C2: within the lines written by one flush the tool-definition groups are in
\* ascending lexicographic order of their token, and within a group the
\* coordinates are in the order of their input lines.
C2_FlushSorted ==
    \A p, q \in DOMAIN out :
        (p < q /\ out[p].flush # 0 /\ out[p].flush = out[q].flush)
            => \/ StrLess(out[p].key, out[q].key)
               \/ out[p].key = out[q].key /\ out[p].src < out[q].src

\* A flush wrote two groups in the opposite of their input order, one of them
\* with two coordinates.
C2_Witness ==
    \E p, q, r \in DOMAIN out :
        /\ p < q /\ q < r
        /\ out[p].flush # 0
        /\ out[p].flush = out[q].flush /\ out[q].flush = out[r].flush
        /\ out[p].key = out[q].key /\ out[q].key # out[r].key
        /\ out[r].src < out[p].src

\* C3: within one flush exactly one written line of every tool-definition
\* group carries the token as its suffix, and it is the first line of the
\* group, also when the token is defined on several input lines of the region.
C3_OneLabel ==
    \A p \in DOMAIN out :
        out[p].flush # 0 =>
            LET first == ~\E q \in 1..(p - 1) :
                             out[q].flush = out[p].flush /\ out[q].key = out[p].key
                m == re_search(out[p].text)
            IN  /\ m.ok
                /\ m.g3 = (IF first THEN out[p].key ELSE None)
                /\ out[p].text =
                     get_formatted_coords(float(m.g1), float(m.g2)) \o m.g3

\* A flush wrote a second line of a group whose input line defines the token
\* of the group again, in the same block region as the first.
C3_Witness ==
    \E p, q \in DOMAIN out :
        /\ q < p
        /\ out[p].flush # 0
        /\ out[q].flush = out[p].flush /\ out[q].key = out[p].key
        /\ HasToolDef(out[p].src) /\ HasToolDef(out[q].src)
        /\ Classify[lines[out[p].src]].g3 = out[p].key
        /\ Classify[lines[out[q].src]].g3 = out[p].key
        /\ \A j \in out[q].src..(out[p].flush - 1) : Matched(j)

\* C4: every coordinate written, passed through or flushed, has the X of its
\* input line, and its Y plus 10.000 when that X is strictly greater than
\* 50.000, its Y otherwise.
C4_OffsetRule ==
    \A p \in DOMAIN out :
        IsCoordLine(p) =>
            LET m == re_search(out[p].text)
                n == out[p].src
            IN  /\ Matched(n)
                /\ Val(float(m.g1)) = InX(n)
                /\ Val(float(m.g2)) = InY(n) + (IF InX(n) > 50000 THEN 10000 ELSE 0)

\* Written: a passed-through coordinate with X > 50.000, a passed-through one
\* with X = 50.000, and a flushed one with X > 50.000.
C4_Witness ==
    /\ \E p \in DOMAIN out : IsCoordLine(p) /\ out[p].flush = 0 /\ InX(out[p].src) > 50000
    /\ \E p \in DOMAIN out : IsCoordLine(p) /\ out[p].flush = 0 /\ InX(out[p].src) = 50000
    /\ \E p \in DOMAIN out : out[p].flush # 0 /\ InX(out[p].src) > 50000

\* The texts of the written lines.
OutText == [p \in DOMAIN out |-> out[p].text]

NoPattern(line) == ~re_search(line).ok

\* C5: when the rewrite pipeline has ended, every input line without a
\* coordinate pattern has been written verbatim exactly once, these lines in
\* their input order.
C5_VerbatimOnce ==
    pc \in {"done", "raised"} /\ file = "ok"
        => SelectSeq(OutText, NoPattern) = SelectSeq(lines, NoPattern)

\* C6: a coordinate of a block region is written only after a non-matching line
\* that follows it has been read; so when the input ends with a tool
\* definition active, the coordinates of that region are never written.
C6_NoFlushAtEnd ==
    /\ \A p \in DOMAIN out :
          (IsCoordLine(p) /\ InRegion(out[p].src))
              => \E f \in Read : f > out[p].src /\ ~Matched(f)
    /\ (pc = "done" /\ tool_definition # None)
          => \A p \in DOMAIN out :
                ~(InRegion(out[p].src) /\ \A j \in out[p].src..Len(lines) : Matched(j))

\* The input ended inside a block region, after an earlier region was flushed.
C6_Witness ==
    /\ pc = "done"
    /\ tool_definition # None
    /\ Len(lines) > 0 /\ InRegion(Len(lines))
    /\ \E p \in DOMAIN out : out[p].flush # 0

\* Some line of the input has a tool-definition field.
AnyToolDef == \E n \in 1..Len(lines) : HasToolDef(n)

\* The first line with a tool-definition field.
FirstToolDef == CHOOSE n \in 1..Len(lines) :
                    HasToolDef(n) /\ \A k \in 1..(n - 1) : ~HasToolDef(k)

\* The first block region: the lines from the first one with a tool-definition
\* field up to, not including, the first non-matching line after it.
FirstRegion ==
    {n \in FirstToolDef..Len(lines) : \A j \in FirstToolDef..n : Matched(j)}

SetMin(S) == CHOOSE v \in S : \A w \in S : v <= w
SetMax(S) == CHOOSE v \in S : \A w \in S : v >= w

\* The floats of value v thousandths: a zero has either sign.
FloatsOf(v) ==
    IF v = 0 THEN {Finite(FALSE, 0), Finite(TRUE, 0)}
    ELSE {Finite(v < 0, IF v < 0 THEN 0 - v ELSE v)}

\* C7: the line the report pipeline prints holds, in the order
\* xMin/xMax/yMin/yMax, the minimum and maximum of the X and of the Y of the
\* lines of the first block region as written in the input (no Y offset).
C7_ReportExtrema ==
    (pc = "done" /\ AnyToolDef) =>
        LET xs == {InX(n) : n \in FirstRegion}
            ys == {InY(n) : n \in FirstRegion}
        IN  \E a \in FloatsOf(SetMin(xs)), b \in FloatsOf(SetMax(xs)),
               c \in FloatsOf(SetMin(ys)), d \in FloatsOf(SetMax(ys)) :
                stdout = <<Format3(a) \o <<"/">> \o Format3(b) \o <<"/">>
                             \o Format3(c) \o <<"/">> \o Format3(d)>>

\* Printed for an input whose first block region has two lines with different
\* X and Y, one of them with X > 50.000, comes after a matching line without a
\* tool definition and ends before the end of the input.
C7_Witness ==
    /\ pc = "done"
    /\ AnyToolDef
    /\ FirstToolDef > 1 /\ Matched(1)
    /\ Cardinality({InX(n) : n \in FirstRegion}) > 1
    /\ Cardinality({InY(n) : n \in FirstRegion}) > 1
    /\ \E n \in FirstRegion : InX(n) > 50000
    /\ \E n \in 1..Len(lines) : n > FirstToolDef /\ ~Matched(n)

\* The block region was entered and a non-matching line was read after that.
RegionEnded ==
    \E f \in Read : ~Matched(f) /\ \E k \in 1..(f - 1) : HasToolDef(k)

\* C8: once the block region has been entered and a non-matching line has then
\* been read, the extremas never change again.
C8_EarlyTermination ==
    [][RegionEnded => extremas' = extremas]_vars

\* The pipeline ended with the region ended and, among the lines never read, one
\* with a tool definition whose coordinates would change the extremas.
C8_Witness ==
    /\ pc = "done"
    /\ RegionEnded
    /\ \E n \in i..Len(lines) :
          /\ HasToolDef(n)
          /\ update_min_max(get_coords(Classify[lines[n]]), extremas) # extremas

\* The line about to be read matches, has no tool-definition field, and no
\* line before it has one.
BeforeAnyToolDef(n) ==
    /\ n <= Len(lines)
    /\ Matched(n) /\ ~HasToolDef(n)
    /\ \A k \in 1..(n - 1) : ~HasToolDef(k)

\* C9: reading a matched line without a tool-definition field before any line
\* with one leaves in_block false and the four extremas unchanged.
C9_EntryCondition ==
    [][(pc = "loop" /\ BeforeAnyToolDef(i))
          => (in_block' = FALSE /\ extremas' = extremas)]_vars

\* Such a line has been read.
C9_Witness ==
    /\ pc = "loop"
    /\ i > 1
    /\ BeforeAnyToolDef(i - 1)
    /\ ~in_block

\* C10: for an input without any line with a tool-definition field the report
\* pipeline does not raise, and the line it prints is inf/-inf/inf/-inf.
C10_DegenerateReport ==
    (file = "ok" /\ ~AnyToolDef) =>
        /\ pc # "raised"
        /\ pc = "done" =>
              stdout = << <<"i", "n", "f", "/", "-", "i", "n", "f", "/",
                            "i", "n", "f", "/", "-", "i", "n", "f">> >>

\* Printed for an input with matching lines, none with a tool definition.
C10_Witness ==
    /\ pc = "done"
    /\ file = "ok"
    /\ ~AnyToolDef
    /\ \E n \in 1..Len(lines) : Matched(n)
    /\ \E n \in 1..Len(lines) : ~Matched(n)

\* A field of the shape: an optional single minus, one or more digits, a
\* decimal point, exactly three digits.
ShapeOK(s) ==
    LET a == IF s # <<>> /\ s[1] = "-" THEN 2 ELSE 1
    IN  /\ Len(s) >= a + 4
        /\ \A k \in a..(Len(s) - 4) : s[k] \in Digits
        /\ s[Len(s) - 3] = "."
        /\ \A k \in (Len(s) - 2)..Len(s) : s[k] \in Digits

\* C11: the X and Y fields of every line the pattern matches have the shape
\* optional single minus, digits, point, three digits, so get_coords parses
\* them and no pipeline ends in a malformed-number error.
C11_FieldsParse ==
    file = "ok" =>
        /\ pc # "raised"
        /\ \A n \in Read :
              Matched(n) => /\ ShapeOK(Classify[lines[n]].g1)
                            /\ ShapeOK(Classify[lines[n]].g2)

\* C12: at most one pipeline runs; with neither option on the command line
\* none runs; with both, whatever their values, funkce1 runs and funkce2 does
\* not.
C12_Dispatch ==
    pc # "cli" =>
        /\ Len(ran) <= 1
        /\ (~args.funkce1.given /\ ~args.funkce2.given) => ran = <<>>
        /\ (args.funkce1.given /\ args.funkce2.given) => ran = <<"funkce1">>

SentinelLine ==
    <<"i", "n", "f", "/", "-", "i", "n", "f", "/",
      "i", "n", "f", "/", "-", "i", "n", "f">>

KeyAt(n) ==
    Classify[lines[CHOOSE k \in 1..n :
                      HasToolDef(k) /\ \A j \in (k + 1)..n : ~HasToolDef(j)]].g3

\* The accumulator's sequence of a key, empty for a key it does not hold.
SeqOf(bl, k) == IF k \in DOMAIN bl THEN bl[k] ELSE <<>>

\* The places in the accumulator of the coordinates of line n.
PlacesOf(n) ==
    {kj \in UNION {{<<k, j>> : j \in 1..Len(blocks[k])} : k \in DOMAIN blocks} :
        blocks[kj[1]][kj[2]].src = n}

\* C15: a step on a matched line read while a tool definition is active, or
\* that activates one, writes nothing to the output; when the line is
\* processed the accumulator changes by one coordinate appended to the
\* sequence of the current key, and in nothing else.
C15_BufferedNotWritten ==
    [][(pc = "loop" /\ i <= Len(lines) /\ InRegion(i))
          => /\ out' = out
             /\ i' = i + 1 =>
                  /\ tool_definition' # None
                  /\ DOMAIN blocks' = DOMAIN blocks \cup {tool_definition'}
                  /\ \A k \in DOMAIN blocks' :
                        Len(blocks'[k]) =
                            Len(SeqOf(blocks, k))
                              + (IF k = tool_definition' THEN 1 ELSE 0)
                  /\ \A k \in DOMAIN blocks :
                        SubSeq(blocks'[k], 1, Len(blocks[k])) = blocks[k]]_vars

\* A line with a tool definition and a line without one after it have been
\* processed: two coordinates are buffered and nothing is written.
C15_Witness ==
    /\ pc = "loop"
    /\ i = 3
    /\ HasToolDef(1) /\ Matched(2) /\ ~HasToolDef(2)
    /\ out = <<>>
    /\ Cardinality(PlacesOf(1) \cup PlacesOf(2)) = 2

\* C16: every processed matched line of a block region is in the accumulator
\* once, under the token of the most recent line with a tool-definition field
\* (its own, if it has one), which is then the current key; and in the output
\* of one flush the lines of a token are one group.
C16_CurrentKey ==
    /\ \A n \in Read :
          InRegion(n) =>
              /\ Cardinality(PlacesOf(n)) = 1
              /\ \A kj \in PlacesOf(n) : kj[1] = KeyAt(n)
    /\ (pc = "loop" /\ i > 1 /\ InRegion(i - 1)) => tool_definition = KeyAt(i - 1)
    /\ \A p, q, r \in DOMAIN out :
          (p < q /\ q < r /\ out[p].flush # 0 /\ out[p].flush = out[r].flush
             /\ out[p].key = out[r].key)
              => (out[q].flush = out[p].flush /\ out[q].key = out[p].key)

\* A region was processed in which a line without a token follows a token, the
\* token changes, and the first token comes back.
C16_Witness ==
    /\ pc = "loop"
    /\ i = 5
    /\ HasToolDef(1) /\ Matched(2) /\ ~HasToolDef(2)
    /\ HasToolDef(3) /\ KeyAt(3) # KeyAt(1)
    /\ HasToolDef(4) /\ KeyAt(4) = KeyAt(1)
    /\ Len(blocks[KeyAt(1)]) = 3

\* The first line of the block region that line f ends.
RegionFirst(f) ==
    CHOOSE k \in 1..(f - 1) :
        /\ HasToolDef(k)
        /\ \A j \in k..(f - 1) : Matched(j)
        /\ \A h \in 1..(k - 1) : ~(HasToolDef(h) /\ \A j \in h..(f - 1) : Matched(j))

\* C17: a processed matched line read with no tool definition active is
\* written, before the output of every later input line; the lines a flush
\* writes are followed at once by the verbatim terminating line, and the lines
\* of the flushed block come after the output of every input line that
\* precedes the block region.
C17_OutputOrder ==
    /\ \A n \in Read :
          (Matched(n) /\ ~InRegion(n))
              => \E p \in DOMAIN out :
                    out[p].src = n /\ out[p].flush = 0 /\ IsCoordLine(p)
    /\ \A p, q \in DOMAIN out :
          (out[p].flush = 0 /\ out[q].src > out[p].src) => p < q
    /\ \A p \in DOMAIN out :
          out[p].flush # 0 =>
              /\ p + 1 \in DOMAIN out
              /\ \/ out[p + 1].flush = out[p].flush
                 \/ /\ out[p + 1].flush = 0
                    /\ out[p + 1].src = out[p].flush
                    /\ out[p + 1].text = lines[out[p].flush]
              /\ out[p].src >= RegionFirst(out[p].flush) =>
                    \A q \in DOMAIN out :
                        out[q].src < RegionFirst(out[p].flush) => q < p

\* C18: no step increases min_x or min_y or decreases max_x or max_y, and once
\* a coordinate has been fed into the extremas min_x <= max_x and
\* min_y <= max_y in every state.
C18_Monotone ==
    /\ [][/\ ~FloatLess(extremas.min_x, extremas'.min_x)
          /\ ~FloatLess(extremas.min_y, extremas'.min_y)
          /\ ~FloatLess(extremas'.max_x, extremas.max_x)
          /\ ~FloatLess(extremas'.max_y, extremas.max_y)]_vars
    /\ [](fed # {} => /\ ~FloatLess(extremas.max_x, extremas.min_x)
                      /\ ~FloatLess(extremas.max_y, extremas.min_y))

\* The pipeline ended after three coordinates, the second of them inside the
\* range of the other two in X, with both ranges wider than a point.
C18_Witness ==
    /\ pc = "done"
    /\ fed = {1, 2, 3}
    /\ InX(1) < InX(2) /\ InX(3) < InX(2)
    /\ FloatLess(extremas.min_x, extremas.max_x)
    /\ FloatLess(extremas.min_y, extremas.max_y)

\* C19: when the rewrite pipeline has ended on an input none of whose block
\* regions runs to the end of the input, the output has as many lines as the
\* input.
C19_LineCount ==
    (/\ file = "ok"
     /\ pc \in {"done", "raised"}
     /\ Len(lines) > 0 => ~InRegion(Len(lines)))
        => Len(out) = Len(lines)

\* The input line whose reading made the first flush; past the end of the input
\* when there was none.
FirstFlushAt ==
    LET fs == {out[p].flush : p \in DOMAIN out} \ {0}
    IN  IF fs = {} THEN Len(lines) + 1 ELSE SetMin(fs)

\* The lines the rewrite pipeline appended to its accumulator before its first
\* flush.
AppendedBeforeFirstFlush ==
    {n \in 1..Len(lines) : n < FirstFlushAt /\ PlacesOf(n) # {}}

\* C20: when the report pipeline has ended on the input the rewrite pipeline
\* ended on before, the lines fed into the extremas are the lines the rewrite
\* pipeline appended to its accumulator before its first flush, and the
\* extremas are the minimum and maximum of the X and Y these lines have in the
\* input.
C20_SameLines ==
    (ran = <<"funkce1", "funkce2">> /\ pc \in {"done", "raised"}) =>
        /\ fed = AppendedBeforeFirstFlush
        /\ AppendedBeforeFirstFlush # {} =>
              LET xs == {InX(n) : n \in AppendedBeforeFirstFlush}
                  ys == {InY(n) : n \in AppendedBeforeFirstFlush}
              IN  /\ extremas.min_x \in FloatsOf(SetMin(xs))
                  /\ extremas.max_x \in FloatsOf(SetMax(xs))
                  /\ extremas.min_y \in FloatsOf(SetMin(ys))
                  /\ extremas.max_y \in FloatsOf(SetMax(ys))

=============================================================================
